---- MODULE Spec2Model ----
(***************************************************************************)
(* Model of the item-warehouse service: the warehouse registry (register   *)
(* and remove of a warehouse, each a registry row plus a physical table)   *)
(* and the generic item operations, as request handlers that run step by   *)
(* step against a shared relational store.  Every storage access (a query, *)
(* a DDL statement, a commit) is one atomic step; concurrent requests      *)
(* interleave between storage accesses.                                    *)
(***************************************************************************)
EXTENDS Integers, FiniteSets, Sequences, TLC

VARIABLES
    registry,   \* committed rows of the registry table: [name, item_name]
    tables,     \* names of the physical item tables that exist
    items,      \* items[t]: the committed rows of physical table t
    nextId,     \* nextId[t]: the storage's autoincrement counter of table t
    pc,         \* pc[p]: position of request handler p
    req,        \* req[p]: the request p is serving (or served last)
    result,     \* result[p]: what the caller of p's request was told
    err,        \* err[p]: the exception that ended p's request ("none" if none)
    local,      \* local[p]: local variables of handler p
    display,    \* display[n][f]: the display hint stored for field f of warehouse n
    registryTable   \* whether the registry's own table exists

vars == <<registry, tables, items, nextId, pc, req, result, err, local,
          display, registryTable>>

----------------------------------------------------------------------------
(* The universe of the model. *)

Procs == {"p1", "p2"}

\* ReservedName with the registry's table name in its place.
ReservedName_Plural == "warehouses"

ReservedName == "warehouse"

Names == {"warehouse", "w1", "w2"}

ItemNames == {"i1", "i2"}

EmptyMap == [f \in {} |-> 0]

\* A request: fields is the field-map of the call (the input of createItem, the
\* key values of getItemByKey, updateItem and deleteItem, the search
\* parameters of listItems), patch the field-map of an update; limit is a
\* sequence, empty when the caller gave none.
Request(op, name, item_name, fields, field_names) ==
    [op |-> op, name |-> name, item_name |-> item_name, fields |-> fields,
     field_names |-> field_names, patch |-> EmptyMap, offset |-> 0,
     limit |-> <<>>, field_name |-> "none", display_as |-> "none",
     allow_no_warehouse_table |-> FALSE]

NoReq == Request("none", "w1", "i1", EmptyMap, {})

NoLocal == [item_name |-> "i1", tolerated |-> FALSE, caught |-> FALSE,
            ret |-> EmptyMap, current |-> EmptyMap, item_schema |-> EmptyMap]

RegistryRows == [name : Names, item_name : ItemNames]

RowsNamed(reg, n) == {r \in reg : r.name = n}

RowsOfItem(reg, i) == {r \in reg : r.item_name = i}

----------------------------------------------------------------------------
(* Schemas, values and the record-type factory. *)

\* A value is typed: an integer, a string (v >= 1: the decimal digits of v;
\* v = 0: a string that is no number) or null.
IntV(n) == [t |-> "int", v |-> n]

StrV(n) == [t |-> "str", v |-> n]

Null == [t |-> "null", v |-> 0]

MaxId == 3

Field(type, key, autoincrement, nullable, has_default, default) ==
    [type |-> type, key |-> key, autoincrement |-> autoincrement,
     nullable |-> nullable, has_default |-> has_default, default |-> default]

\* The two item schemas of the model: "i1" has one autoincrementing integer
\* key and an integer field with a default; "i2" has a composite integer key
\* and a nullable string field without default.
Schema(i) ==
    IF i = "i1"
    THEN [f \in {"id", "age"} |->
            IF f = "id" THEN Field("integer", TRUE, TRUE, FALSE, FALSE, Null)
            ELSE Field("integer", FALSE, FALSE, FALSE, TRUE, IntV(0))]
    ELSE [f \in {"a", "b", "c"} |->
            IF f = "c" THEN Field("string", FALSE, FALSE, TRUE, FALSE, Null)
            ELSE Field("integer", TRUE, FALSE, FALSE, FALSE, Null)]

\* Warehouse.pk_name: the key fields in declaration order.
pk_name(i) == IF i = "i1" THEN <<"id">> ELSE <<"a", "b">>

Range(seq) == {seq[k] : k \in DOMAIN seq}

\* Whether the validator accepts value x for a field of this descriptor.
Accepts(fd, x) ==
    \/ x.t = "null" /\ fd.nullable
    \/ fd.type = "integer" /\ (x.t = "int" \/ (x.t = "str" /\ x.v >= 1))
    \/ fd.type = "string" /\ x.t = "str"

\* The typed value the validator (and a typed column) makes of an accepted x.
Coerce(fd, x) ==
    IF fd.type = "integer" /\ x.t = "str" THEN IntV(x.v) ELSE x

\* item_schema_class.model_validate(item): the fields that fail.
InvalidFields(i, item) ==
    {f \in DOMAIN item : f \notin DOMAIN Schema(i) \/ ~Accepts(Schema(i)[f], item[f])}
    \cup {f \in DOMAIN Schema(i) \ DOMAIN item :
            LET fd == Schema(i)[f] IN
            ~(fd.has_default \/ fd.nullable \/ fd.autoincrement)}

\* model_dump(exclude_unset=True) of the validated item: the typed values of
\* the fields the input set, and nothing else.
DumpExcludeUnset(i, item) ==
    [f \in DOMAIN item |-> Coerce(Schema(i)[f], item[f])]

\* The validated input merged with the schema defaults (an omitted
\* autoincrementing key takes the value the storage assigns).
ValidatedWithDefaults(i, item, assigned) ==
    [f \in DOMAIN Schema(i) |->
        IF f \in DOMAIN item THEN Coerce(Schema(i)[f], item[f])
        ELSE IF Schema(i)[f].autoincrement THEN assigned[f]
        ELSE IF Schema(i)[f].has_default THEN Schema(i)[f].default
        ELSE Null]

\* Warehouse.parse_pk_dict: the key tuple of a field-map, in the declaration
\* order of the key fields, each value typed as its column.
parse_pk_dict(i, pk_values) ==
    [k \in DOMAIN pk_name(i) |->
        Coerce(Schema(i)[pk_name(i)[k]], pk_values[pk_name(i)[k]])]

\* The key tuple of a stored row.
PkOf(i, row) == [k \in DOMAIN pk_name(i) |-> row[pk_name(i)[k]]]

\* The row the storage makes of the columns an INSERT gives: a column left out
\* takes the next autoincrement value, its default, or NULL.
StoredRow(i, given, next_id) ==
    [f \in DOMAIN Schema(i) |->
        IF f \in DOMAIN given THEN given[f]
        ELSE IF Schema(i)[f].autoincrement THEN IntV(next_id)
        ELSE IF Schema(i)[f].has_default THEN Schema(i)[f].default
        ELSE Null]

\* item.as_dict(include=field_names): the row, or its projection.
as_dict(row, field_names) ==
    IF field_names = {} THEN row ELSE [f \in field_names |-> row[f]]

ItemNameOf(reg, name) == CHOOSE i \in ItemNames : [name |-> name, item_name |-> i] \in reg

\* The warehouses item requests name, and the record type each was (or would
\* be) registered with.
ItemWarehouses == {"w1", "w2"}

TypeOf(name) == IF name = "w1" THEN "i1" ELSE "i2"

\* DisplayType: the display hints a field can carry.
DisplayTypes == {"number", "text", "json"}

\* DisplayType.from_type_name: the default display hint of a declared type.
from_type_name(type) == IF type = "integer" THEN "number" ELSE "text"

\* The display hints a schema is registered with: each field's default.
DefaultDisplay(i) == [f \in DOMAIN Schema(i) |-> from_type_name(Schema(i)[f].type)]

DefaultDisplays == [n \in ItemWarehouses |-> DefaultDisplay(TypeOf(n))]

----------------------------------------------------------------------------
(* Registry look-ups. *)

\* crud.get_warehouse: the row of that name; absent, None when no_exist_ok
\* and WarehouseNotFoundError otherwise.
get_warehouse(reg, name, no_exist_ok) ==
    IF RowsNamed(reg, name) # {}
    THEN [found |-> TRUE, raised |-> "none"]
    ELSE IF no_exist_ok
         THEN [found |-> FALSE, raised |-> "none"]
         ELSE [found |-> FALSE, raised |-> "WarehouseNotFoundError"]

\* The look-up the registration endpoint calls: returns the row or None.
lookup_optional(reg, name) == RowsNamed(reg, name) # {}

\* The record-type look-up the registration endpoint calls: a row or None.
get_item_model(reg, item_name) == RowsOfItem(reg, item_name) # {}

----------------------------------------------------------------------------
(* The table provisioner. *)

\* Outcomes of a DDL create: the table exists afterwards, or the statement
\* failed (the table already exists, or a storage fault).
CreateOutcomes(tbls, t) ==
    IF t \in tbls THEN {"TableExists"} ELSE {"ok", "OperationalError"}

\* Outcomes of adding and committing a registry row, then refreshing it: the
\* name is unique in the registry table, so a second row of a name is an
\* IntegrityError; any statement may fail with a storage fault
\* (OperationalError) or another error; the refresh after a successful commit
\* may fail with a storage fault too.
PersistOutcomes(reg, name) ==
    IF RowsNamed(reg, name) # {}
    THEN {"IntegrityError", "OperationalError"}
    ELSE {"ok", "OperationalError", "OtherError", "RefreshOperationalError"}

\* Outcomes of deleting a registry row and committing.
DeleteOutcomes == {"ok", "OperationalError"}

\* Outcomes of a DDL drop: with no_exist_ok a "does not exist" failure is
\* swallowed ("absent"), any other failure is surfaced.
DropOutcomes(tbls, t, no_exist_ok) ==
    IF t \in tbls THEN {"ok", "OperationalError"}
    ELSE IF no_exist_ok THEN {"absent"} ELSE {"NoSuchTable"}

----------------------------------------------------------------------------
Finish(p, res, e) ==
    /\ pc' = [pc EXCEPT ![p] = "idle"]
    /\ result' = [result EXCEPT ![p] = res]
    /\ err' = [err EXCEPT ![p] = e]

Goto(p, label) ==
    /\ pc' = [pc EXCEPT ![p] = label]
    /\ UNCHANGED <<result, err>>

----------------------------------------------------------------------------
(* POST /v1/warehouses: register a warehouse. *)

StartRegister(p) ==
    /\ pc[p] = "idle"
    /\ \E n \in Names, i \in ItemNames :
         req' = [req EXCEPT ![p] = Request("register", n, i, EmptyMap, {})]
    /\ pc' = [pc EXCEPT ![p] = "r_name"]
    /\ result' = [result EXCEPT ![p] = "pending"]
    /\ err' = [err EXCEPT ![p] = "none"]
    /\ local' = [local EXCEPT ![p] = NoLocal]
    /\ UNCHANGED <<display, registryTable, registry, tables, items, nextId>>

\* RegNameCheck without the name look-up.
RegNameCheck_NoLookup(p) ==
    /\ pc[p] = "r_name"
    /\ IF req[p].name = ReservedName
       THEN Finish(p, "NameReserved", "none")
       ELSE Goto(p, "r_item")
    /\ UNCHANGED <<display, registryTable, registry, tables, items, nextId, req, local>>

\* main.create_warehouse: the reserved-name check, then the name look-up.
RegNameCheck(p) ==
    /\ pc[p] = "r_name"
    /\ IF req[p].name = ReservedName
       THEN Finish(p, "NameReserved", "none")
       ELSE IF lookup_optional(registry, req[p].name)
            THEN Finish(p, "AlreadyExists", "none")
            ELSE Goto(p, "r_item")
    /\ UNCHANGED <<display, registryTable, registry, tables, items, nextId, req, local>>

\* RegItemCheck without the record-type look-up.
RegItemCheck_NoLookup(p) ==
    /\ pc[p] = "r_item"
    /\ Goto(p, "r_create")
    /\ UNCHANGED <<display, registryTable, registry, tables, items, nextId, req, local>>

\* main.create_warehouse: the record-type check.
RegItemCheck(p) ==
    /\ pc[p] = "r_item"
    /\ IF get_item_model(registry, req[p].item_name)
       THEN Finish(p, "ItemTypeExists", "none")
       ELSE Goto(p, "r_create")
    /\ UNCHANGED <<display, registryTable, registry, tables, items, nextId, req, local>>

\* crud.create_warehouse: the exceptions its try block handles.
CreateCaught == {"OperationalError", "RefreshOperationalError"}

\* crud.create_warehouse: the no_exist_ok it passes to the clean-up drop.
CreateDropNoExistOk == TRUE

\* crud.create_warehouse: db_warehouse.intialise_warehouse() creates the table;
\* a failure propagates to the endpoint, which answers 500.
RegCreateTable(p) ==
    /\ pc[p] = "r_create"
    /\ \E o \in CreateOutcomes(tables, req[p].item_name) :
         IF o = "ok"
         THEN /\ tables' = tables \cup {req[p].item_name}
              /\ Goto(p, "r_persist")
         ELSE /\ tables' = tables
              /\ Finish(p, "ServerError", o)
    /\ UNCHANGED <<display, registryTable, registry, items, nextId, req, local>>

\* crud.create_warehouse: db.add, db.commit, db.refresh inside the try block.
RegPersist(p) ==
    /\ pc[p] = "r_persist"
    /\ \E o \in PersistOutcomes(registry, req[p].name) :
         /\ registry' = IF o \in {"ok", "RefreshOperationalError"}
                        THEN registry \cup {[name |-> req[p].name,
                                             item_name |-> req[p].item_name]}
                        ELSE registry
         /\ IF o = "ok"
            THEN Finish(p, "ok", "none") /\ local' = local
            ELSE IF o \in CreateCaught
                 THEN /\ Goto(p, "r_cleanup")
                      /\ local' = [local EXCEPT ![p].caught = TRUE]
                 ELSE Finish(p, "ServerError", o) /\ local' = local
    /\ UNCHANGED <<display, registryTable, tables, items, nextId, req>>

\* crud.create_warehouse: the except branch drops the table, and the function
\* then returns db_warehouse.
RegCleanup(p) ==
    /\ pc[p] = "r_cleanup"
    /\ \E o \in DropOutcomes(tables, req[p].item_name, CreateDropNoExistOk) :
         /\ tables' = IF o = "ok" THEN tables \ {req[p].item_name} ELSE tables
         /\ local' = [local EXCEPT ![p].tolerated = (o = "absent")]
         /\ IF o \in {"ok", "absent"}
            THEN Finish(p, "ok", "none")
            ELSE Finish(p, "ServerError", o)
    /\ UNCHANGED <<display, registryTable, registry, items, nextId, req>>

----------------------------------------------------------------------------
(* DELETE /v1/warehouses/{name}: remove a warehouse. *)

StartRemove(p) ==
    /\ pc[p] = "idle"
    /\ \E n \in Names :
         req' = [req EXCEPT ![p] = Request("remove", n, "i1", EmptyMap, {})]
    /\ pc' = [pc EXCEPT ![p] = "d_lookup"]
    /\ result' = [result EXCEPT ![p] = "pending"]
    /\ err' = [err EXCEPT ![p] = "none"]
    /\ local' = [local EXCEPT ![p] = NoLocal]
    /\ UNCHANGED <<display, registryTable, registry, tables, items, nextId>>

\* DeleteDropNoExistOk with the argument left at its default.
DeleteDropNoExistOk_Default == FALSE

\* crud.delete_warehouse: the no_exist_ok it passes to warehouse.drop.
DeleteDropNoExistOk == TRUE

\* crud.delete_warehouse: warehouse = get_warehouse(db, warehouse_name).
RemLookup(p) ==
    /\ pc[p] = "d_lookup"
    /\ LET got == get_warehouse(registry, req[p].name, FALSE) IN
         IF got.found
         THEN /\ \E r \in RowsNamed(registry, req[p].name) :
                   local' = [local EXCEPT ![p].item_name = r.item_name]
              /\ Goto(p, "d_drop")
         ELSE /\ local' = local
              /\ Finish(p, "NotFound", got.raised)
    /\ UNCHANGED <<display, registryTable, registry, tables, items, nextId, req>>

\* crud.delete_warehouse: warehouse.drop(no_exist_ok=True).
RemDrop(p) ==
    /\ pc[p] = "d_drop"
    /\ \E o \in DropOutcomes(tables, local[p].item_name, DeleteDropNoExistOk) :
         /\ tables' = IF o = "ok" THEN tables \ {local[p].item_name} ELSE tables
         /\ local' = [local EXCEPT ![p].tolerated = (o = "absent")]
         /\ IF o \in {"ok", "absent"}
            THEN Goto(p, "d_delete")
            ELSE Finish(p, "ServerError", o)
    /\ UNCHANGED <<display, registryTable, registry, items, nextId, req>>

\* crud.delete_warehouse: the registry DELETE and db.commit().
RemDelete(p) ==
    /\ pc[p] = "d_delete"
    /\ \E o \in DeleteOutcomes :
         IF o = "ok"
         THEN /\ registry' = registry \ RowsNamed(registry, req[p].name)
              /\ Finish(p, "ok", "none")
         ELSE /\ registry' = registry
              /\ Finish(p, "ServerError", o)
    /\ UNCHANGED <<display, registryTable, tables, items, nextId, req, local>>

----------------------------------------------------------------------------
(* The registry service: any number of requests, two handlers at a time. *)

Init ==
    /\ registry = {}
    /\ tables = {}
    /\ items = [t \in ItemNames |-> {}]
    /\ nextId = [t \in ItemNames |-> 1]
    /\ pc = [p \in Procs |-> "idle"]
    /\ req = [p \in Procs |-> NoReq]
    /\ result = [p \in Procs |-> "none"]
    /\ err = [p \in Procs |-> "none"]
    /\ local = [p \in Procs |-> NoLocal]
    /\ display = DefaultDisplays
    /\ registryTable = TRUE

RegistryStep(p) ==
    \/ StartRegister(p)
    \/ RegNameCheck(p)
    \/ RegItemCheck(p)
    \/ RegCreateTable(p)
    \/ RegPersist(p)
    \/ RegCleanup(p)
    \/ StartRemove(p)
    \/ RemLookup(p)
    \/ RemDrop(p)
    \/ RemDelete(p)

Next == \E p \in Procs : RegistryStep(p)

Spec == Init /\ [][Next]_vars

\* One request at a time: a handler steps only while every other is idle.
SeqNext == \E p \in Procs : (\A q \in Procs \ {p} : pc[q] = "idle") /\ RegistryStep(p)

SeqSpec == Init /\ [][SeqNext]_vars

----------------------------------------------------------------------------
(* Properties of the registry. *)

AllIdle == \A p \in Procs : pc[p] = "idle"

\* p takes a step.
Steps(p) == pc'[p] # pc[p] \/ req'[p] # req[p]

\* p's request ends with this step.
Ends(p) == pc[p] # "idle" /\ pc'[p] = "idle"

\* C1: whenever no request is in flight, after any run of register and remove
\* requests (storage steps may fail), every committed registry row has its
\* physical table.
C1_NoRowWithoutTable ==
    AllIdle => \A r \in registry : r.item_name \in tables

\* C2: when register has created the table and persisting the registry row
\* fails, whatever the failure, the register ends with the table dropped
\* unless a registry row owns it.
C2_FailedPersistDropsTable ==
    [][\A p \in Procs :
         ( /\ req[p].op = "register"
           /\ pc[p] \in {"r_persist", "r_cleanup"}
           /\ Ends(p)
           /\ (local'[p].caught \/ err'[p] \in {"IntegrityError", "OtherError"}) )
         => ( req[p].item_name \in tables'
                => RowsOfItem(registry', req[p].item_name) # {} )]_vars

\* C3: register returns a Warehouse only for a warehouse whose registry row is
\* committed: a failure to persist the row is raised to the caller.
C3_NoWarehouseWithoutRow ==
    [][\A p \in Procs :
         (req[p].op = "register" /\ Ends(p) /\ result'[p] = "ok")
         => RowsNamed(registry', req[p].name) # {}]_vars

\* C5: a register that passed the pre-checks and then loses to a concurrent
\* register of the same name (the row of that name is committed before its
\* own table create or insert, which the storage refuses) is reported as
\* AlreadyExists, and leaves exactly one row of the name, with its table.
C5_RaceLoserAlreadyExists ==
    [][\A p \in Procs :
         ( /\ req[p].op = "register"
           /\ pc[p] \in {"r_create", "r_persist"}
           /\ RowsNamed(registry, req[p].name) # {}
           /\ \E q \in Procs \ {p} :
                /\ req[q].op = "register" /\ req[q].name = req[p].name
                /\ pc[q] = "idle" /\ result[q] = "ok"
           /\ Ends(p)
           /\ err'[p] \in {"TableExists", "IntegrityError"} )
         => ( /\ result'[p] = "AlreadyExists"
              /\ Cardinality(RowsNamed(registry', req[p].name)) = 1
              /\ \A r \in RowsNamed(registry', req[p].name) :
                    r.item_name \in tables' )]_vars

\* C6: a register of the name "warehouse" ends at its first step with
\* NameReserved, whatever the record-type name and the registry, and changes
\* neither the registry nor the tables; no row is ever named "warehouse".
C6_ReservedNameRejected ==
    /\ [](\A r \in registry : r.name # "warehouse")
    /\ [][\A p \in Procs :
           (req[p].op = "register" /\ req[p].name = "warehouse" /\ pc[p] # "idle"
              /\ Steps(p))
           => ( /\ pc'[p] = "idle"
                /\ result'[p] = "NameReserved"
                /\ registry' = registry
                /\ tables' = tables )]_vars

C6_Witness ==
    \E p \in Procs :
        /\ pc[p] = "idle"
        /\ req[p].op = "register"
        /\ req[p].name = "warehouse"
        /\ req[p].item_name = "i2"
        /\ result[p] = "NameReserved"
        /\ registry # {}

\* C7: the name check of register rejects a name that has a registry row with
\* AlreadyExists, changing neither the registry nor the tables, and lets a
\* free name that is not reserved through to the next check.
C7_NameCheck ==
    [][\A p \in Procs :
         (pc[p] = "r_name" /\ req[p].name # "warehouse" /\ Steps(p))
         => IF RowsNamed(registry, req[p].name) # {}
            THEN /\ pc'[p] = "idle"
                 /\ result'[p] = "AlreadyExists"
                 /\ registry' = registry
                 /\ tables' = tables
            ELSE pc'[p] = "r_item" /\ result'[p] = "pending"]_vars

C7_Witness ==
    \E p \in Procs :
        /\ pc[p] = "idle"
        /\ req[p].op = "register"
        /\ result[p] = "AlreadyExists"
        /\ RowsNamed(registry, req[p].name) # {}
        /\ \E q \in Procs \ {p} : pc[q] = "r_item"

\* C8: the record-type check of register rejects a record-type name that a
\* registry row uses with ItemTypeExists, and after any sequence of register
\* and remove requests no two registry rows share a record-type name.
C8_ItemTypeUnique ==
    /\ [](\A r1, r2 \in registry : r1.item_name = r2.item_name => r1 = r2)
    /\ [][\A p \in Procs :
           (pc[p] = "r_item" /\ RowsOfItem(registry, req[p].item_name) # {}
              /\ Steps(p))
           => ( /\ pc'[p] = "idle"
                /\ result'[p] = "ItemTypeExists"
                /\ registry' = registry
                /\ tables' = tables )]_vars

C8_Witness ==
    /\ Cardinality(registry) = 1
    /\ \E p \in Procs :
          /\ pc[p] = "idle"
          /\ req[p].op = "register"
          /\ result[p] = "ItemTypeExists"
          /\ RowsNamed(registry, req[p].name) = {}

\* C9: the table drop of remove never fails on a table that is already gone
\* (as after a remove that dropped the table and then failed to delete the
\* row): the remove goes on to delete the row, and no remove ends with a
\* missing-table error.
C9_DropIdempotent ==
    /\ [](\A p \in Procs : req[p].op = "remove" => err[p] # "NoSuchTable")
    /\ [][\A p \in Procs :
           (pc[p] = "d_drop" /\ local[p].item_name \notin tables /\ Steps(p))
           => (pc'[p] = "d_delete" /\ tables' = tables)]_vars

C9_Witness ==
    \E p \in Procs, q \in Procs :
        /\ p # q
        /\ req[q].op = "remove" /\ pc[q] = "idle" /\ result[q] = "ServerError"
        /\ req[p].op = "remove" /\ req[p].name = req[q].name
        /\ pc[p] = "d_delete" /\ local[p].tolerated

----------------------------------------------------------------------------
(* Item operations. *)

\* crud.get_item_by_pk: the warehouse look-up, the field-name check, the key
\* look-up; None for a missing item when no_exist_ok.
get_item_by_pk(reg, its, warehouse_name, pk_values, field_names, no_exist_ok) ==
    IF get_warehouse(reg, warehouse_name, FALSE).raised # "none"
    THEN [raised |-> "WarehouseNotFoundError", found |-> FALSE, item |-> EmptyMap]
    ELSE LET i == ItemNameOf(reg, warehouse_name)
             unknown_fields == field_names \ DOMAIN Schema(i)
         IN  IF unknown_fields # {}
             THEN [raised |-> "InvalidFieldsError", found |-> FALSE, item |-> EmptyMap]
             ELSE LET item_pk == parse_pk_dict(i, pk_values)
                      rows == {r \in its[i] : PkOf(i, r) = item_pk}
                  IN  IF rows = {}
                      THEN [raised |-> IF no_exist_ok THEN "none" ELSE "ItemNotFoundError",
                            found |-> FALSE, item |-> EmptyMap]
                      ELSE [raised |-> "none", found |-> TRUE,
                            item |-> as_dict(CHOOSE r \in rows : TRUE, field_names)]

\* PkLoop without the break for an absent autoincrementing key.
PkLoop_NoBreak(i, item) ==
    IF \A k \in DOMAIN pk_name(i) : pk_name(i)[k] \in DOMAIN item
    THEN "check" ELSE "KeyError"

\* crud.create_item: the loop over the key fields ends in "break" (an absent
\* autoincrementing key: no existence check), in a KeyError (an absent key
\* that does not autoincrement) or in its else branch (the existence check).
PkLoop(i, item) ==
    LET absent == {k \in DOMAIN pk_name(i) : pk_name(i)[k] \notin DOMAIN item} IN
    IF absent = {} THEN "check"
    ELSE LET first == CHOOSE k \in absent : \A j \in absent : k <= j IN
         IF Schema(i)[pk_name(i)[first]].autoincrement THEN "break" ELSE "KeyError"

\* The field-maps a createItem request carries: every field present or left
\* out; keys as integers or digit strings; other values valid or not.
ItemInputs(i) ==
    IF i = "i1"
    THEN {[f \in D |-> IF f = "id" THEN x ELSE y] :
            D \in SUBSET {"id", "age"}, x \in {IntV(1), StrV(2)},
            y \in {StrV(1), StrV(0)}}
    ELSE {[f \in D \cup {"b"} |-> IF f = "a" THEN x ELSE IF f = "b" THEN y ELSE StrV(0)] :
            D \in SUBSET {"a", "c"}, x \in {IntV(1), StrV(1)},
            y \in {IntV(1), IntV(2)}}

\* The key field-maps a getItemByKey request carries.
KeyInputs(i) ==
    IF i = "i1"
    THEN {[f \in {"id"} |-> x] : x \in {IntV(1), StrV(2)}}
    ELSE {[f \in {"a", "b"} |-> IF f = "a" THEN IntV(1) ELSE x] : x \in {IntV(1), IntV(2)}}

\* The field_names a getItemByKey request carries: none, one field, or a name
\* that is no field.
FieldNameInputs(i) == {{}, {IF i = "i1" THEN "age" ELSE "c"}, {"zz"}}

\* One input stands for all in a request that names no registered warehouse:
\* the request fails at the warehouse look-up, before its input is read.
AnyOf(S) == CHOOSE x \in S : TRUE

\* The createItem input of a request that names no registered warehouse: one
\* that the checks after the warehouse look-up would reject (a value of the
\* wrong type; a key field left out that does not autoincrement).
RejectedInput(i) ==
    IF i = "i1" THEN [f \in {"age"} |-> StrV(0)] ELSE [f \in {"b"} |-> IntV(1)]

StartCreateItem(p) ==
    /\ pc[p] = "idle"
    /\ \E n \in ItemWarehouses : \E m \in ItemInputs(TypeOf(n)) :
         /\ RowsNamed(registry, n) = {} => m = RejectedInput(TypeOf(n))
         /\ req' = [req EXCEPT ![p] = Request("createItem", n, TypeOf(n), m, {})]
    /\ pc' = [pc EXCEPT ![p] = "c_lookup"]
    /\ result' = [result EXCEPT ![p] = "pending"]
    /\ err' = [err EXCEPT ![p] = "none"]
    /\ local' = [local EXCEPT ![p] = NoLocal]
    /\ UNCHANGED <<display, registryTable, registry, tables, items, nextId>>

\* crud.create_item: validation of the input, then on to the insert.
ValidateThenInsert(p, i) ==
    IF InvalidFields(i, req[p].fields) # {}
    THEN Finish(p, "ValidationError", "ValidationError")
    ELSE Goto(p, "c_insert")

\* crud.create_item: the warehouse look-up and the loop over the key fields.
CreateLookup(p) ==
    /\ pc[p] = "c_lookup"
    /\ LET got == get_warehouse(registry, req[p].name, FALSE) IN
         IF ~got.found
         THEN /\ Finish(p, "NotFound", got.raised)
              /\ local' = local
         ELSE LET i == ItemNameOf(registry, req[p].name)
                  loop == PkLoop(i, req[p].fields)
              IN  /\ local' = [local EXCEPT ![p].item_name = i]
                  /\ IF loop = "KeyError" THEN Finish(p, "ServerError", "KeyError")
                     ELSE IF loop = "check" THEN Goto(p, "c_precheck")
                     ELSE ValidateThenInsert(p, i)
    /\ UNCHANGED <<display, registryTable, registry, tables, items, nextId, req>>

\* CreatePrecheck without the existence check.
CreatePrecheck_NoCheck(p) ==
    /\ pc[p] = "c_precheck"
    /\ ValidateThenInsert(p, local[p].item_name)
    /\ UNCHANGED <<display, registryTable, registry, tables, items, nextId, req, local>>

\* crud.create_item: the existence check by key, then the validation.
CreatePrecheck(p) ==
    /\ pc[p] = "c_precheck"
    /\ LET i == local[p].item_name
           pk_values == [f \in Range(pk_name(i)) |-> req[p].fields[f]]
           got == get_item_by_pk(registry, items, req[p].name, pk_values, {}, TRUE)
       IN  IF got.raised # "none" THEN Finish(p, "NotFound", got.raised)
           ELSE IF got.found THEN Finish(p, "ItemExists", "ItemExistsError")
           ELSE ValidateThenInsert(p, i)
    /\ UNCHANGED <<display, registryTable, registry, tables, items, nextId, req, local>>

\* Outcomes of adding and committing an item row: the key is unique in the
\* table, so a second row of a key tuple is an IntegrityError.
InsertOutcomes(tbls, its, i, row) ==
    IF i \notin tbls THEN {"OperationalError"}
    ELSE IF \E r \in its[i] : PkOf(i, r) = PkOf(i, row) THEN {"IntegrityError"}
    ELSE {"ok", "OperationalError"}

\* The autoincrement counter after a row is inserted: above every key stored.
NextIdAfter(i, row, next_id) ==
    LET autos == {f \in DOMAIN Schema(i) : Schema(i)[f].autoincrement}
        used == {row[f].v : f \in autos}
    IN  IF \E v \in used : v >= next_id
        THEN 1 + CHOOSE v \in used : \A w \in used : w <= v
        ELSE next_id

\* InsertedColumns with the input handed on as it came, not as validated.
InsertedColumns_Raw(i, item) == item

\* The columns create_item hands to the storage.
InsertedColumns(i, item) == DumpExcludeUnset(i, item)

\* crud.create_item: db.add, db.commit, db.refresh, and the item re-read.
CreateInsert(p) ==
    /\ pc[p] = "c_insert"
    /\ LET i == local[p].item_name
           given == InsertedColumns(i, req[p].fields)
           auto == \E f \in DOMAIN Schema(i) :
                      Schema(i)[f].autoincrement /\ f \notin DOMAIN given
           row == StoredRow(i, given, nextId[i])
       IN  /\ auto => nextId[i] <= MaxId
           /\ \E o \in InsertOutcomes(tables, items, i, row) :
                IF o = "ok"
                THEN /\ items' = [items EXCEPT ![i] = @ \cup {row}]
                     /\ nextId' = [nextId EXCEPT ![i] = NextIdAfter(i, row, @)]
                     /\ local' = [local EXCEPT ![p].ret = row]
                     /\ Finish(p, "ok", "none")
                ELSE /\ UNCHANGED <<items, nextId, local>>
                     /\ Finish(p, "ServerError", o)
    /\ UNCHANGED <<display, registryTable, registry, tables, req>>

----------------------------------------------------------------------------
StartGetItem(p) ==
    /\ pc[p] = "idle"
    /\ \E n \in ItemWarehouses : \E k \in KeyInputs(TypeOf(n)) :
         \E fns \in FieldNameInputs(TypeOf(n)) :
           /\ RowsNamed(registry, n) = {} =>
                k = AnyOf(KeyInputs(TypeOf(n))) /\ fns = {"zz"}
           /\ req' = [req EXCEPT ![p] = Request("getItemByKey", n, TypeOf(n), k, fns)]
    /\ pc' = [pc EXCEPT ![p] = "g_query"]
    /\ result' = [result EXCEPT ![p] = "pending"]
    /\ err' = [err EXCEPT ![p] = "none"]
    /\ local' = [local EXCEPT ![p] = NoLocal]
    /\ UNCHANGED <<display, registryTable, registry, tables, items, nextId>>

\* What the caller is told for an exception of the item operations.
Reported(raised) ==
    IF raised \in {"WarehouseNotFoundError", "ItemNotFoundError"} THEN "NotFound"
    ELSE IF raised = "InvalidFieldsError" THEN "InvalidFields"
    ELSE IF raised = "ItemExistsError" THEN "ItemExists"
    ELSE "ServerError"

\* getItemByKey: crud.get_item_by_pk called for a request.
GetItem(p) ==
    /\ pc[p] = "g_query"
    /\ LET got == get_item_by_pk(registry, items, req[p].name, req[p].fields,
                                 req[p].field_names, FALSE)
       IN  IF got.raised # "none"
           THEN /\ Finish(p, Reported(got.raised), got.raised)
                /\ local' = local
           ELSE /\ Finish(p, "ok", "none")
                /\ local' = [local EXCEPT ![p].ret = got.item]
    /\ UNCHANGED <<display, registryTable, registry, tables, items, nextId, req>>

----------------------------------------------------------------------------
(* The item service over one registered warehouse: any number of requests,  *)
(* two handlers at a time.                                                  *)

ItemInit ==
    /\ \E n \in ItemWarehouses :
         /\ registry = {[name |-> n, item_name |-> TypeOf(n)]}
         /\ tables = {TypeOf(n)}
    /\ items = [t \in ItemNames |-> {}]
    /\ nextId = [t \in ItemNames |-> 1]
    /\ pc = [p \in Procs |-> "idle"]
    /\ req = [p \in Procs |-> NoReq]
    /\ result = [p \in Procs |-> "none"]
    /\ err = [p \in Procs |-> "none"]
    /\ local = [p \in Procs |-> NoLocal]
    /\ display = DefaultDisplays
    /\ registryTable = TRUE

ItemStep(p) ==
    \/ StartCreateItem(p)
    \/ CreateLookup(p)
    \/ CreatePrecheck(p)
    \/ CreateInsert(p)
    \/ StartGetItem(p)
    \/ GetItem(p)

ItemNext == \E p \in Procs : ItemStep(p)

ItemSpec == ItemInit /\ [][ItemNext]_vars

----------------------------------------------------------------------------
(* Properties of the item operations. *)

\* The key field-map of a createItem request: the key values of its input,
\* and the value the response carries for a key the input left out.
KeyValuesOf(i, item, response) ==
    [f \in Range(pk_name(i)) |-> IF f \in DOMAIN item THEN item[f] ELSE response[f]]

\* C4: a createItem with every key value given that passed the existence
\* check and then finds, at its insert, a record of its key tuple committed
\* by a concurrent createItem, is reported as ItemExists, and one record of
\* that key tuple is stored.
C4_RaceLoserItemExists ==
    [][\A p \in Procs :
         ( /\ req[p].op = "createItem"
           /\ pc[p] = "c_insert"
           /\ PkLoop(local[p].item_name, req[p].fields) = "check"
           /\ \E q \in Procs \ {p} :
                /\ req[q].op = "createItem" /\ req[q].name = req[p].name
                /\ pc[q] = "idle" /\ result[q] = "ok"
                /\ PkLoop(local[p].item_name, req[q].fields) = "check"
                /\ parse_pk_dict(local[p].item_name,
                       KeyValuesOf(local[p].item_name, req[q].fields, EmptyMap))
                     = parse_pk_dict(local[p].item_name,
                         KeyValuesOf(local[p].item_name, req[p].fields, EmptyMap))
           /\ \E r \in items[local[p].item_name] :
                PkOf(local[p].item_name, r)
                  = parse_pk_dict(local[p].item_name,
                                  KeyValuesOf(local[p].item_name, req[p].fields, EmptyMap))
           /\ Ends(p) )
         => ( /\ result'[p] = "ItemExists"
              /\ Cardinality({r \in items'[local[p].item_name] :
                    PkOf(local[p].item_name, r)
                      = parse_pk_dict(local[p].item_name,
                          KeyValuesOf(local[p].item_name, req[p].fields, EmptyMap))}) = 1 )]_vars

\* C10: right after a successful createItem, getItemByKey with the key values
\* of the request (the assigned value for an omitted autoincrementing key)
\* finds a record equal to the validated input merged with the schema
\* defaults.
C10_CreateThenGet ==
    [][\A p \in Procs :
         (req[p].op = "createItem" /\ Ends(p) /\ result'[p] = "ok")
         => LET i == local[p].item_name
                response == local'[p].ret
                got == get_item_by_pk(registry', items', req[p].name,
                                      KeyValuesOf(i, req[p].fields, response), {}, FALSE)
            IN  /\ got.raised = "none"
                /\ got.found
                /\ got.item = ValidatedWithDefaults(i, req[p].fields, response)]_vars

C10_Witness ==
    \E p \in Procs, q \in Procs :
        /\ p # q
        /\ pc[p] = "idle" /\ req[p].op = "createItem" /\ result[p] = "ok"
        /\ DOMAIN req[p].fields = {"id"} /\ req[p].fields["id"] = StrV(2)
        /\ pc[q] = "idle" /\ req[q].op = "getItemByKey" /\ result[q] = "ok"
        /\ req[q].name = req[p].name /\ req[q].field_names = {}
        /\ local[q].ret = local[p].ret
        /\ local[q].ret = [f \in {"id", "age"} |-> IF f = "id" THEN IntV(2) ELSE IntV(0)]

----------------------------------------------------------------------------
(* PUT /v1/warehouses/{name}/items/{key}: update an item. *)

\* current_item_dict | item_update: the patch laid over the current record.
Merge(current, item_update) ==
    [f \in DOMAIN current \cup DOMAIN item_update |->
        IF f \in DOMAIN item_update THEN item_update[f] ELSE current[f]]

\* UpdatedRow as a replacement of the whole row: a column the patch does not
\* name, and that is no key, falls back to its default.
UpdatedRow_Replace(i, row, item_update) ==
    [f \in DOMAIN row |->
        IF f \in DOMAIN item_update THEN Coerce(Schema(i)[f], item_update[f])
        ELSE IF Schema(i)[f].key THEN row[f]
        ELSE IF Schema(i)[f].has_default THEN Schema(i)[f].default
        ELSE Null]

\* The row an UPDATE makes of a row: each column the patch names takes the
\* patch's value, typed as the column; every other column is kept.
UpdatedRow(i, row, item_update) ==
    [f \in DOMAIN row |->
        IF f \in DOMAIN item_update THEN Coerce(Schema(i)[f], item_update[f])
        ELSE row[f]]

\* The rows an UPDATE or DELETE filtered by item_model.pk == item_pk matches.
RowsOfPk(i, rows, item_pk) == {r \in rows : PkOf(i, r) = item_pk}

\* Whether the UPDATE would move a row onto the key tuple of another row.
MovesOntoStoredKey(its, i, item_pk, item_update) ==
    LET matched == RowsOfPk(i, its[i], item_pk) IN
    \E r \in matched : \E o \in its[i] \ matched :
        PkOf(i, UpdatedRow(i, r, item_update)) = PkOf(i, o)

\* Outcomes of the UPDATE statement and its commit: moving a row onto the key
\* tuple of another row violates the key constraint, which the storage
\* reports when the statement runs ("IntegrityError") or when the
\* transaction commits ("CommitIntegrityError").
UpdateOutcomes(tbls, its, i, item_pk, item_update) ==
    IF i \notin tbls THEN {"OperationalError"}
    ELSE IF MovesOntoStoredKey(its, i, item_pk, item_update)
         THEN {"IntegrityError", "CommitIntegrityError"}
         ELSE {"ok", "OperationalError"}

\* The patches an updateItem request carries: a value or the key changed, a
\* value the schema rejects, the key named with a value.
PatchInputs(i) ==
    IF i = "i1"
    THEN {[f \in {"age"} |-> x] : x \in {StrV(1), IntV(2), StrV(0)}}
         \cup {[f \in {"id"} |-> IntV(2)]}
         \cup {[f \in {"id", "age"} |-> IF f = "id" THEN StrV(1) ELSE IntV(1)]}
    ELSE {[f \in {"c"} |-> x] : x \in {StrV(1), Null}}
         \cup {[f \in {"b", "c"} |-> IF f = "b" THEN IntV(2) ELSE StrV(1)]}

StartUpdateItem(p) ==
    /\ pc[p] = "idle"
    /\ \E n \in ItemWarehouses : \E k \in KeyInputs(TypeOf(n)) :
         \E u \in PatchInputs(TypeOf(n)) :
           /\ RowsNamed(registry, n) = {} =>
                k = AnyOf(KeyInputs(TypeOf(n))) /\ u = AnyOf(PatchInputs(TypeOf(n)))
           /\ req' = [req EXCEPT ![p] =
                       [Request("updateItem", n, TypeOf(n), k, {}) EXCEPT !.patch = u]]
    /\ pc' = [pc EXCEPT ![p] = "u_lookup"]
    /\ result' = [result EXCEPT ![p] = "pending"]
    /\ err' = [err EXCEPT ![p] = "none"]
    /\ local' = [local EXCEPT ![p] = NoLocal]
    /\ UNCHANGED <<display, registryTable, registry, tables, items, nextId>>

\* crud.update_item: the warehouse look-up, the read of the current record,
\* the merge and its validation.
UpdateLookup(p) ==
    /\ pc[p] = "u_lookup"
    /\ LET got == get_warehouse(registry, req[p].name, FALSE) IN
         IF ~got.found
         THEN /\ Finish(p, "NotFound", got.raised)
              /\ local' = local
         ELSE LET i == ItemNameOf(registry, req[p].name)
                  current == get_item_by_pk(registry, items, req[p].name,
                                            req[p].fields, {}, FALSE)
              IN  /\ local' = [local EXCEPT ![p].item_name = i,
                                             ![p].current = current.item]
                  /\ IF current.raised # "none"
                     THEN Finish(p, Reported(current.raised), current.raised)
                     ELSE IF InvalidFields(i, Merge(current.item, req[p].patch)) # {}
                          THEN Finish(p, "ValidationError", "ValidationError")
                          ELSE Goto(p, "u_write")
    /\ UNCHANGED <<display, registryTable, registry, tables, items, nextId, req>>

\* crud.update_item: the UPDATE of the row of the key tuple, and the commit.
UpdateWrite(p) ==
    /\ pc[p] = "u_write"
    /\ LET i == local[p].item_name
           item_pk == parse_pk_dict(i, req[p].fields)
           matched == RowsOfPk(i, items[i], item_pk)
           updated == {UpdatedRow(i, r, req[p].patch) : r \in matched}
       IN  \E o \in UpdateOutcomes(tables, items, i, item_pk, req[p].patch) :
             IF o = "ok"
             THEN /\ items' = [items EXCEPT ![i] = (@ \ matched) \cup updated]
                  /\ nextId' = [nextId EXCEPT ![i] =
                        IF updated = {} THEN @
                        ELSE NextIdAfter(i, CHOOSE r \in updated : TRUE, @)]
                  /\ Goto(p, "u_reread")
             ELSE /\ UNCHANGED <<items, nextId>>
                  /\ IF o = "IntegrityError"
                     THEN Finish(p, "ItemExists", "ItemExistsError")
                     ELSE IF o = "CommitIntegrityError"
                     THEN Finish(p, "ServerError", "IntegrityError")
                     ELSE Finish(p, "ServerError", o)
    /\ UNCHANGED <<display, registryTable, registry, tables, req, local>>

\* crud.update_item: the record re-read by the key values of the request.
UpdateReread(p) ==
    /\ pc[p] = "u_reread"
    /\ LET got == get_item_by_pk(registry, items, req[p].name, req[p].fields,
                                 {}, FALSE)
       IN  IF got.raised # "none"
           THEN /\ Finish(p, Reported(got.raised), got.raised)
                /\ local' = local
           ELSE /\ Finish(p, "ok", "none")
                /\ local' = [local EXCEPT ![p].ret = got.item]
    /\ UNCHANGED <<display, registryTable, registry, tables, items, nextId, req>>

----------------------------------------------------------------------------
(* DELETE /v1/warehouses/{name}/items/{key}: delete an item. *)

\* DeletedRows with the filter left out: every row of the table.
DeletedRows_All(i, rows, search_values) == rows

\* crud.delete_item: the rows the DELETE removes.
DeletedRows(i, rows, search_values) ==
    RowsOfPk(i, rows, parse_pk_dict(i, search_values))

\* Outcomes of the DELETE statement and its commit.
DeleteItemOutcomes(tbls, i) ==
    IF i \notin tbls THEN {"OperationalError"} ELSE {"ok", "OperationalError"}

StartDeleteItem(p) ==
    /\ pc[p] = "idle"
    /\ \E n \in ItemWarehouses : \E k \in KeyInputs(TypeOf(n)) :
         /\ RowsNamed(registry, n) = {} => k = AnyOf(KeyInputs(TypeOf(n)))
         /\ req' = [req EXCEPT ![p] = Request("deleteItem", n, TypeOf(n), k, {})]
    /\ pc' = [pc EXCEPT ![p] = "x_lookup"]
    /\ result' = [result EXCEPT ![p] = "pending"]
    /\ err' = [err EXCEPT ![p] = "none"]
    /\ local' = [local EXCEPT ![p] = NoLocal]
    /\ UNCHANGED <<display, registryTable, registry, tables, items, nextId>>

\* crud.delete_item: the warehouse look-up and the check that the item exists.
DeleteItemLookup(p) ==
    /\ pc[p] = "x_lookup"
    /\ LET got == get_warehouse(registry, req[p].name, FALSE) IN
         IF ~got.found
         THEN /\ Finish(p, "NotFound", got.raised)
              /\ local' = local
         ELSE LET i == ItemNameOf(registry, req[p].name)
                  current == get_item_by_pk(registry, items, req[p].name,
                                            req[p].fields, {}, FALSE)
              IN  /\ local' = [local EXCEPT ![p].item_name = i]
                  /\ IF current.raised # "none"
                     THEN Finish(p, Reported(current.raised), current.raised)
                     ELSE Goto(p, "x_delete")
    /\ UNCHANGED <<display, registryTable, registry, tables, items, nextId, req>>

\* crud.delete_item: the DELETE by key tuple, and the commit.
DeleteItemWrite(p) ==
    /\ pc[p] = "x_delete"
    /\ LET i == local[p].item_name IN
         \E o \in DeleteItemOutcomes(tables, i) :
           IF o = "ok"
           THEN /\ items' = [items EXCEPT ![i] = @ \ DeletedRows(i, @, req[p].fields)]
                /\ Finish(p, "ok", "none")
           ELSE /\ items' = items
                /\ Finish(p, "ServerError", o)
    /\ UNCHANGED <<display, registryTable, registry, tables, nextId, req, local>>

----------------------------------------------------------------------------
(* GET /v1/warehouses/{name}/items: list items; and the item count. *)

\* Warehouse.search_params_are_pks: the search names exactly the key fields.
search_params_are_pks(i, search_params) ==
    DOMAIN search_params = Range(pk_name(i))

\* The order a query without ORDER BY scans a table in: by key tuple.
KeyLeq(i, r1, r2) ==
    LET k1 == PkOf(i, r1)
        k2 == PkOf(i, r2)
    IN  \/ k1 = k2
        \/ \E j \in DOMAIN k1 :
              /\ \A h \in 1..(j - 1) : k1[h] = k2[h]
              /\ k1[j].v < k2[j].v

RECURSIVE InKeyOrder(_, _)
InKeyOrder(i, rows) ==
    IF rows = {} THEN <<>>
    ELSE LET first == CHOOSE r \in rows : \A o \in rows : KeyLeq(i, r, o)
         IN  <<first>> \o InKeyOrder(i, rows \ {first})

\* query.filter(column == value) for every search parameter.
Matches(i, row, search_params) ==
    \A k \in DOMAIN search_params : row[k] = Coerce(Schema(i)[k], search_params[k])

\* query.offset(offset).limit(limit).all()
OffsetLimit(seq, offset, limit) ==
    SubSeq(seq, offset + 1, IF offset + limit < Len(seq) THEN offset + limit ELSE Len(seq))

\* get_item_count without the warehouse look-up.
get_item_count_NoLookup(reg, its, warehouse_name) ==
    [raised |-> "none", count |-> Cardinality(its[TypeOf(warehouse_name)])]

\* crud.get_item_count: the number of rows of the warehouse's table.
get_item_count(reg, its, warehouse_name) ==
    IF get_warehouse(reg, warehouse_name, FALSE).raised # "none"
    THEN [raised |-> "WarehouseNotFoundError", count |-> 0]
    ELSE [raised |-> "none",
          count |-> Cardinality(its[ItemNameOf(reg, warehouse_name)])]

\* max_page with the last, partial page counted.
max_page_Ceiling(total, limit) == (total + limit - 1) \div limit

\* The max_page of an ItemPage.
max_page(total, limit) == total \div limit

\* The page number of an ItemPage.
page_number(offset, limit) == (offset \div limit) + 1

NoPage == [count |-> 0, items |-> <<>>, max_page |-> 0, page |-> 0, total |-> 0]

\* get_items without the delegation of a key search to get_item_by_pk.
delegates_key_search_Never(i, search_params) == FALSE

\* crud.get_items: whether the search is handed to get_item_by_pk.
delegates_key_search(i, search_params) == search_params_are_pks(i, search_params)

\* crud.get_items: a single item for a search by key, else a page of the
\* rows that match the search, scanned from offset, at most limit of them.
get_items(reg, its, warehouse_name, field_names, search_params, offset, limit) ==
    IF get_warehouse(reg, warehouse_name, FALSE).raised # "none"
    THEN [raised |-> "WarehouseNotFoundError", single |-> FALSE,
          item |-> EmptyMap, page |-> NoPage]
    ELSE LET i == ItemNameOf(reg, warehouse_name) IN
         IF delegates_key_search(i, search_params)
         THEN LET got == get_item_by_pk(reg, its, warehouse_name, search_params,
                                        field_names, FALSE)
              IN  [raised |-> got.raised, single |-> TRUE, item |-> got.item,
                   page |-> NoPage]
         ELSE IF field_names \ DOMAIN Schema(i) # {}
         THEN [raised |-> "InvalidFieldsError", single |-> FALSE,
               item |-> EmptyMap, page |-> NoPage]
         ELSE IF DOMAIN search_params \ DOMAIN Schema(i) # {}
         THEN [raised |-> "AttributeError", single |-> FALSE,
               item |-> EmptyMap, page |-> NoPage]
         ELSE LET matching == {r \in its[i] : Matches(i, r, search_params)}
                  results == OffsetLimit(InKeyOrder(i, matching), offset, limit)
                  page_items == [k \in DOMAIN results |-> as_dict(results[k], field_names)]
                  total == get_item_count(reg, its, warehouse_name).count
              IN  [raised |-> "none", single |-> FALSE, item |-> EmptyMap,
                   page |-> [count |-> Len(page_items), items |-> page_items,
                             max_page |-> max_page(total, limit),
                             page |-> page_number(offset, limit),
                             total |-> total]]

\* The search parameters a listItems request carries: none, a filter on a
\* field that is no key, part of a key, a whole key, a name that is no field.
SearchInputs(i) ==
    KeyInputs(i)
    \cup {EmptyMap, [f \in {"zz"} |-> StrV(1)]}
    \cup (IF i = "i1" THEN {[f \in {"age"} |-> StrV(1)]}
          ELSE {[f \in {"c"} |-> StrV(0)], [f \in {"b"} |-> StrV(2)]})

MaxOffset == 2

MaxLimit == 2

StartListItems(p) ==
    /\ pc[p] = "idle"
    /\ \E n \in ItemWarehouses : \E sp \in SearchInputs(TypeOf(n)) :
         \E fns \in FieldNameInputs(TypeOf(n)) :
           \E offset \in 0..MaxOffset, limit \in 1..MaxLimit :
             /\ RowsNamed(registry, n) = {} =>
                  /\ sp = [f \in {"zz"} |-> StrV(1)] /\ fns = {"zz"}
                  /\ offset = 0 /\ limit = 1
             /\ req' = [req EXCEPT ![p] =
                         [Request("listItems", n, TypeOf(n), sp, fns)
                            EXCEPT !.offset = offset, !.limit = <<limit>>]]
    /\ pc' = [pc EXCEPT ![p] = "l_query"]
    /\ result' = [result EXCEPT ![p] = "pending"]
    /\ err' = [err EXCEPT ![p] = "none"]
    /\ local' = [local EXCEPT ![p] = NoLocal]
    /\ UNCHANGED <<display, registryTable, registry, tables, items, nextId>>

\* listItems: crud.get_items called for a request.
ListItems(p) ==
    /\ pc[p] = "l_query"
    /\ LET got == get_items(registry, items, req[p].name, req[p].field_names,
                            req[p].fields, req[p].offset, req[p].limit[1])
       IN  IF got.raised # "none"
           THEN /\ Finish(p, Reported(got.raised), got.raised)
                /\ local' = local
           ELSE /\ Finish(p, "ok", "none")
                /\ local' = [local EXCEPT ![p].ret =
                                IF got.single THEN got.item ELSE got.page]
    /\ UNCHANGED <<display, registryTable, registry, tables, items, nextId, req>>

StartItemCount(p) ==
    /\ pc[p] = "idle"
    /\ \E n \in ItemWarehouses :
         req' = [req EXCEPT ![p] = Request("itemCount", n, TypeOf(n), EmptyMap, {})]
    /\ pc' = [pc EXCEPT ![p] = "n_count"]
    /\ result' = [result EXCEPT ![p] = "pending"]
    /\ err' = [err EXCEPT ![p] = "none"]
    /\ local' = [local EXCEPT ![p] = NoLocal]
    /\ UNCHANGED <<display, registryTable, registry, tables, items, nextId>>

\* itemCount: crud.get_item_count called for a request.
ItemCount(p) ==
    /\ pc[p] = "n_count"
    /\ LET got == get_item_count(registry, items, req[p].name) IN
         IF got.raised # "none"
         THEN /\ Finish(p, Reported(got.raised), got.raised)
              /\ local' = local
         ELSE /\ Finish(p, "ok", "none")
              /\ local' = [local EXCEPT ![p].ret = [total |-> got.count]]
    /\ UNCHANGED <<display, registryTable, registry, tables, items, nextId, req>>

----------------------------------------------------------------------------
(* The item service over one registered warehouse, one request at a time:   *)
(* every item operation, requests of one caller after another.              *)

Caller == "p1"

CrudStep(p) ==
    \/ StartCreateItem(p)
    \/ CreateLookup(p)
    \/ CreatePrecheck(p)
    \/ CreateInsert(p)
    \/ StartGetItem(p)
    \/ GetItem(p)
    \/ StartUpdateItem(p)
    \/ UpdateLookup(p)
    \/ UpdateWrite(p)
    \/ UpdateReread(p)
    \/ StartDeleteItem(p)
    \/ DeleteItemLookup(p)
    \/ DeleteItemWrite(p)
    \/ StartListItems(p)
    \/ ListItems(p)
    \/ StartItemCount(p)
    \/ ItemCount(p)

CrudNext == CrudStep(Caller)

CrudSpec == ItemInit /\ [][CrudNext]_vars

----------------------------------------------------------------------------
(* Properties of the item operations, one request at a time. *)

\* The value a patch gives a field of a record: the patch's value, typed as
\* the field, for a field the patch names; the record's value otherwise.
PatchedValue(i, R, P, f) ==
    IF f \in DOMAIN P THEN Coerce(Schema(i)[f], P[f]) ELSE R[f]

\* C11: the write of an updateItem(key(R), P) replaces R by a record equal to
\* R on every field not in P and to P's value on every field in P, and
\* changes no other record; a successful updateItem returns a stored record
\* that relates to R in that way, also when P names a key field.
C11_UpdateFrame ==
    [][\A p \in Procs :
         LET i == local[p].item_name
             R == local[p].current
             P == req[p].patch
         IN  /\ (req[p].op = "updateItem" /\ pc[p] = "u_write" /\ pc'[p] = "u_reread")
                  => /\ R \in items[i]
                     /\ \E N \in items'[i] :
                          /\ \A f \in DOMAIN Schema(i) : N[f] = PatchedValue(i, R, P, f)
                          /\ items'[i] \ {N} = items[i] \ {R}
                     /\ \A t \in ItemNames \ {i} : items'[t] = items[t]
             /\ (req[p].op = "updateItem" /\ Ends(p) /\ result'[p] = "ok")
                  => /\ items' = items
                     /\ local'[p].ret \in items'[i]
                     /\ \A f \in DOMAIN Schema(i) :
                          local'[p].ret[f] = PatchedValue(i, R, P, f)]_vars

\* A successful updateItem whose patch names the key field and no other: the
\* record keeps the value of the field the patch left out, next to another
\* record.
C11_Witness ==
    \E p \in Procs :
        /\ pc[p] = "idle" /\ req[p].op = "updateItem" /\ result[p] = "ok"
        /\ DOMAIN req[p].patch = {"id"}
        /\ local[p].ret = [f \in {"id", "age"} |-> IF f = "id" THEN IntV(2) ELSE IntV(1)]
        /\ local[p].current = local[p].ret
        /\ Cardinality(items["i1"]) >= 2

\* The pages 1..k of a listing of warehouse n without search parameters, at
\* limit L: the items of the pages at offsets 0, L, ..., (k-1)L, in a row.
RECURSIVE PagesUpTo(_, _, _)
PagesUpTo(n, L, k) ==
    IF k = 0 THEN <<>>
    ELSE PagesUpTo(n, L, k - 1)
         \o get_items(registry, items, n, {}, EmptyMap, (k - 1) * L, L).page.items

RegisteredWarehouses == {n \in ItemWarehouses : RowsNamed(registry, n) # {}}

\* C12 as stated: max_page is T div L, and the pages 1..max_page hold every
\* record of the warehouse exactly once, for every T and every L > 0.
C12_PagesCoverEveryRecord ==
    \A n \in RegisteredWarehouses : \A L \in 1..MaxLimit :
        LET T == Cardinality(items[ItemNameOf(registry, n)])
            first == get_items(registry, items, n, {}, EmptyMap, 0, L).page
            pages == PagesUpTo(n, L, first.max_page)
        IN  /\ first.max_page = T \div L
            /\ Len(pages) = T
            /\ Range(pages) = items[ItemNameOf(registry, n)]

\* C12, amended: max_page is T div L, and the pages 1..max_page hold
\* L * (T div L) records of the warehouse, none of them twice; they hold
\* every record exactly when T is a multiple of L.
C12_FullPagesOnly ==
    \A n \in RegisteredWarehouses : \A L \in 1..MaxLimit :
        LET T == Cardinality(items[ItemNameOf(registry, n)])
            first == get_items(registry, items, n, {}, EmptyMap, 0, L).page
            pages == PagesUpTo(n, L, first.max_page)
        IN  /\ first.max_page = T \div L
            /\ first.total = T
            /\ Len(pages) = L * (T \div L)
            /\ Cardinality(Range(pages)) = Len(pages)
            /\ Range(pages) \subseteq items[ItemNameOf(registry, n)]
            /\ (Range(pages) = items[ItemNameOf(registry, n)]) <=> (T % L = 0)

\* A listing of three records at limit 2 that returned its first page: two
\* records, max_page 1, the third record on no page up to max_page.
C12_Witness ==
    \E p \in Procs :
        /\ pc[p] = "idle" /\ req[p].op = "listItems" /\ result[p] = "ok"
        /\ req[p].fields = EmptyMap /\ req[p].field_names = {}
        /\ req[p].offset = 0 /\ req[p].limit = <<2>>
        /\ Cardinality(items[req[p].item_name]) = 3
        /\ local[p].ret.count = 2 /\ local[p].ret.max_page = 1
        /\ local[p].ret.total = 3
        /\ Range(local[p].ret.items) # items[req[p].item_name]

\* C13: the total of every Page that listItems returns is the number of
\* records that match the search parameters, whatever offset and limit; so
\* count <= total.
C13_TotalCountsMatches ==
    \A p \in Procs :
        ( /\ pc[p] = "idle" /\ req[p].op = "listItems" /\ result[p] = "ok"
          /\ ~search_params_are_pks(req[p].item_name, req[p].fields) )
        => /\ local[p].ret.total
                = Cardinality({r \in items[req[p].item_name] :
                                  Matches(req[p].item_name, r, req[p].fields)})
           /\ local[p].ret.count <= local[p].ret.total

\* C14: a listItems whose search parameters name exactly the key fields
\* ends as getItemByKey ends for those key values and field names in the
\* same state: with the same record in the same projection, or with the same
\* failure.
C14_KeySearchIsGetByKey ==
    [][\A p \in Procs :
         ( /\ req[p].op = "listItems" /\ Ends(p)
           /\ DOMAIN req[p].fields = Range(pk_name(req[p].item_name)) )
         => LET got == get_item_by_pk(registry, items, req[p].name, req[p].fields,
                                      req[p].field_names, FALSE)
            IN  /\ err'[p] = got.raised
                /\ result'[p] = (IF got.raised = "none" THEN "ok" ELSE Reported(got.raised))
                /\ got.raised = "none" => local'[p].ret = got.item
                /\ UNCHANGED <<registry, tables, items>>]_vars

\* A listItems by the composite key of a stored record, with a projection,
\* that returned the one field asked for, not a page.
C14_Witness ==
    \E p \in Procs :
        /\ pc[p] = "idle" /\ req[p].op = "listItems" /\ result[p] = "ok"
        /\ DOMAIN req[p].fields = {"a", "b"} /\ req[p].field_names = {"c"}
        /\ local[p].ret = [f \in {"c"} |-> StrV(0)]
        /\ Cardinality(items["i2"]) = 2

\* The key tuple a createItem input names, when it names every key field.
InputKey(i, item) == parse_pk_dict(i, KeyValuesOf(i, item, EmptyMap))

\* C15: a createItem that gives every key field a value, while a record of
\* that key tuple is stored, ends with ItemExists and leaves the stored
\* records as they were; and no step that changes the stored records leaves
\* two records of a key tuple in a table.
C15_ExistingKeyRejected ==
    [][/\ items' # items =>
            \A i \in ItemNames :
               Cardinality({PkOf(i, r) : r \in items'[i]}) = Cardinality(items'[i])
       /\ \A p \in Procs :
            ( /\ req[p].op = "createItem" /\ Ends(p)
              /\ req[p].name \in RegisteredWarehouses
              /\ PkLoop(req[p].item_name, req[p].fields) = "check"
              /\ \E r \in items[req[p].item_name] :
                    PkOf(req[p].item_name, r) = InputKey(req[p].item_name, req[p].fields) )
            => /\ result'[p] = "ItemExists"
               /\ err'[p] = "ItemExistsError"
               /\ items' = items]_vars

\* A createItem that named the key of a stored record, with another value
\* for the other field, was told ItemExists; the stored record is as it was.
C15_Witness ==
    \E p \in Procs :
        /\ pc[p] = "idle" /\ req[p].op = "createItem" /\ result[p] = "ItemExists"
        /\ req[p].fields = [f \in {"id", "age"} |-> IF f = "id" THEN IntV(1) ELSE StrV(1)]
        /\ items["i1"] = {[f \in {"id", "age"} |-> IF f = "id" THEN IntV(1) ELSE IntV(0)]}

\* C16: a createItem whose input leaves out the autoincrementing key never
\* runs the existence check and never ends with ItemExists; with a valid
\* input it succeeds unless the storage fails, and a success stores exactly
\* one more record, under a key no stored record has. So every repetition
\* of a field-map adds a record of a new key.
C16_AutoKeyAlwaysNew ==
    [][\A p \in Procs :
         LET i == req[p].item_name IN
         ( /\ req[p].op = "createItem" /\ req[p].name \in RegisteredWarehouses
           /\ \E f \in Range(pk_name(i)) :
                 f \notin DOMAIN req[p].fields /\ Schema(i)[f].autoincrement
           /\ \A f \in Range(pk_name(i)) :
                 f \notin DOMAIN req[p].fields => Schema(i)[f].autoincrement )
         => /\ pc'[p] # "c_precheck"
            /\ Ends(p) =>
                 /\ result'[p] # "ItemExists"
                 /\ InvalidFields(i, req[p].fields) = {}
                      => (result'[p] = "ok" \/ err'[p] = "OperationalError")
                 /\ result'[p] = "ok" =>
                      /\ \A r \in items[i] : PkOf(i, r) # PkOf(i, local'[p].ret)
                      /\ items'[i] = items[i] \cup {local'[p].ret}
                      /\ Cardinality(items'[i]) = Cardinality(items[i]) + 1]_vars

\* The same field-map created MaxId times: as many records, which differ in
\* their keys only.
C16_Witness ==
    \E p \in Procs :
        /\ pc[p] = "idle" /\ req[p].op = "createItem" /\ result[p] = "ok"
        /\ req[p].fields = [f \in {"age"} |-> StrV(1)]
        /\ items["i1"] = {[f \in {"id", "age"} |-> IF f = "id" THEN IntV(k) ELSE IntV(1)] :
                             k \in 1..MaxId}
        /\ nextId["i1"] = MaxId + 1

\* C17: a deleteItem by the key tuple of a stored record goes on to the
\* DELETE, which (unless the storage fails) removes that record and no
\* other, after which getItemByKey of that key raises ItemNotFoundError; a
\* deleteItem by a key tuple no record has ends with NotFound and changes
\* nothing.
C17_DeleteExactlyOne ==
    [][\A p \in Procs :
         LET i == req[p].item_name
             matched == {r \in items[i] : PkOf(i, r) = parse_pk_dict(i, req[p].fields)}
         IN  (req[p].op = "deleteItem" /\ req[p].name \in RegisteredWarehouses)
             => /\ (pc[p] = "x_lookup" /\ Steps(p) /\ matched = {})
                     => /\ pc'[p] = "idle" /\ result'[p] = "NotFound"
                        /\ err'[p] = "ItemNotFoundError"
                        /\ UNCHANGED <<registry, tables, items>>
                /\ (pc[p] = "x_lookup" /\ Steps(p) /\ matched # {})
                     => pc'[p] = "x_delete" /\ UNCHANGED <<registry, tables, items>>
                /\ (pc[p] = "x_delete" /\ Steps(p))
                     => /\ result'[p] = "ok" \/ err'[p] = "OperationalError"
                        /\ result'[p] # "ok" => items' = items
                        /\ result'[p] = "ok" =>
                             /\ Cardinality(matched) = 1
                             /\ items' = [items EXCEPT ![i] = @ \ matched]
                             /\ get_item_by_pk(registry', items', req[p].name,
                                               req[p].fields, {}, FALSE).raised
                                  = "ItemNotFoundError"]_vars

\* A deleteItem that removed one of two records: the other is still stored.
C17_Witness ==
    \E p \in Procs :
        /\ pc[p] = "idle" /\ req[p].op = "deleteItem" /\ result[p] = "ok"
        /\ req[p].fields = [f \in {"id"} |-> StrV(2)]
        /\ items["i1"] = {[f \in {"id", "age"} |-> IF f = "id" THEN IntV(1) ELSE IntV(1)]}
        /\ nextId["i1"] = MaxId

ItemOps == {"createItem", "getItemByKey", "listItems", "updateItem",
            "deleteItem", "itemCount"}

\* C18: the first step of every item operation on a warehouse name that has
\* no registry row ends the request with NotFound (WarehouseNotFoundError),
\* whatever else is wrong with the request, and changes nothing stored.
C18_UnregisteredNotFound ==
    [][\A p \in Procs :
         ( /\ req[p].op \in ItemOps /\ pc[p] # "idle" /\ Steps(p)
           /\ RowsNamed(registry, req[p].name) = {} )
         => /\ pc'[p] = "idle"
            /\ result'[p] = "NotFound"
            /\ err'[p] = "WarehouseNotFoundError"
            /\ UNCHANGED <<registry, tables, items, nextId, display>>]_vars

\* Requests on the warehouse name without registry row that were told
\* NotFound: a listing that also names a field that is no field, next to a
\* record stored in the registered warehouse.
C18_Witness ==
    \E p \in Procs :
        /\ pc[p] = "idle" /\ req[p].op = "listItems" /\ result[p] = "NotFound"
        /\ err[p] = "WarehouseNotFoundError"
        /\ RowsNamed(registry, req[p].name) = {}
        /\ req[p].field_names = {"zz"}
        /\ \E i \in ItemNames : items[i] # {}

----------------------------------------------------------------------------
(* PATCH /v1/warehouses/{name}/schema/{field}: update a field's display    *)
(* hint.                                                                    *)

\* DisplayType.RESET: the hint that asks for the default.
RESET == "reset"

\* UpdatedHint with the hint stored as it came.
UpdatedHint_AsGiven(type, display_as) == display_as

\* crud.update_schema: the hint to store, for the hint given.
UpdatedHint(type, display_as) ==
    IF display_as = RESET THEN from_type_name(type) ELSE display_as

\* Outcomes of the UPDATE of the registry row and its commit.
SchemaUpdateOutcomes == {"ok", "OperationalError"}

StartUpdateSchema(p) ==
    /\ pc[p] = "idle"
    /\ \E n \in ItemWarehouses :
         \E f \in DOMAIN Schema(TypeOf(n)) \cup {"zz"} :
           \E d \in DisplayTypes \cup {RESET} :
             /\ RowsNamed(registry, n) = {} => (f = "zz" /\ d = RESET)
             /\ req' = [req EXCEPT ![p] =
                         [Request("updateFieldDisplay", n, TypeOf(n), EmptyMap, {})
                            EXCEPT !.field_name = f, !.display_as = d]]
    /\ pc' = [pc EXCEPT ![p] = "s_lookup"]
    /\ result' = [result EXCEPT ![p] = "pending"]
    /\ err' = [err EXCEPT ![p] = "none"]
    /\ local' = [local EXCEPT ![p] = NoLocal]
    /\ UNCHANGED <<display, registryTable, registry, tables, items, nextId>>

\* crud.update_schema: the warehouse look-up, the field check, and the new
\* hint set in the schema of the warehouse object.
SchemaLookup(p) ==
    /\ pc[p] = "s_lookup"
    /\ LET got == get_warehouse(registry, req[p].name, FALSE) IN
         IF ~got.found
         THEN /\ Finish(p, "NotFound", got.raised)
              /\ local' = local
         ELSE LET i == ItemNameOf(registry, req[p].name)
                  f == req[p].field_name
              IN  IF f \notin DOMAIN display[req[p].name]
                  THEN /\ Finish(p, "InvalidFields", "InvalidFieldsError")
                       /\ local' = local
                  ELSE /\ local' = [local EXCEPT
                            ![p].item_name = i,
                            ![p].current = display[req[p].name],
                            ![p].item_schema =
                                [display[req[p].name] EXCEPT
                                   ![f] = UpdatedHint(Schema(i)[f].type, req[p].display_as)]]
                       /\ Goto(p, "s_write")
    /\ UNCHANGED <<display, registryTable, registry, tables, items, nextId, req>>

\* crud.update_schema: the UPDATE of the registry row with the warehouse
\* object's values, and the commit.
SchemaWrite(p) ==
    /\ pc[p] = "s_write"
    /\ \E o \in SchemaUpdateOutcomes :
         IF o = "ok"
         THEN /\ display' = [display EXCEPT ![req[p].name] = local[p].item_schema]
              /\ Goto(p, "s_reread")
         ELSE /\ display' = display
              /\ Finish(p, "ServerError", o)
    /\ UNCHANGED <<registryTable, registry, tables, items, nextId, req, local>>

\* crud.update_schema: the schema read back with get_schema.
SchemaReread(p) ==
    /\ pc[p] = "s_reread"
    /\ IF RowsNamed(registry, req[p].name) = {}
       THEN /\ Finish(p, "NotFound", "ItemSchemaNotFoundError")
            /\ local' = local
       ELSE /\ Finish(p, "ok", "none")
            /\ local' = [local EXCEPT ![p].ret = display[req[p].name]]
    /\ UNCHANGED <<display, registryTable, registry, tables, items, nextId, req>>

----------------------------------------------------------------------------
(* The schema service over one registered warehouse, one request at a time. *)

SchemaStep(p) ==
    \/ StartUpdateSchema(p)
    \/ SchemaLookup(p)
    \/ SchemaWrite(p)
    \/ SchemaReread(p)

SchemaNext == SchemaStep(Caller)

SchemaSpec == ItemInit /\ [][SchemaNext]_vars

\* C19: an updateFieldDisplay with the RESET hint stores, for its field, the
\* default hint of the field's declared type (the hint the field was
\* registered with), whatever hint was stored before; no update changes the
\* hint of another field or of another warehouse; an update that names no
\* field of the schema ends with InvalidFieldsError and the stored schema
\* as it was.
C19_ResetToDefault ==
    [][\A p \in Procs :
         LET n == req[p].name
             f == req[p].field_name
             i == req[p].item_name
         IN  ( /\ req[p].op = "updateFieldDisplay" /\ n \in RegisteredWarehouses
               /\ pc[p] # "idle" /\ Steps(p) )
             => /\ f \notin DOMAIN Schema(i)
                     => /\ pc'[p] = "idle" /\ result'[p] = "InvalidFields"
                        /\ err'[p] = "InvalidFieldsError"
                        /\ display' = display
                /\ f \in DOMAIN Schema(i)
                     => /\ \A m \in ItemWarehouses \ {n} : display'[m] = display[m]
                        /\ DOMAIN display'[n] = DOMAIN display[n]
                        /\ \A g \in DOMAIN display[n] \ {f} : display'[n][g] = display[n][g]
                        /\ (req[p].display_as = RESET /\ pc'[p] = "s_reread")
                             => /\ display'[n][f] = from_type_name(Schema(i)[f].type)
                                /\ display'[n][f] = DefaultDisplays[n][f]
                        /\ (req[p].display_as = RESET /\ Ends(p) /\ result'[p] = "ok")
                             => /\ local'[p].ret = display'[n]
                                /\ local'[p].ret[f] = DefaultDisplays[n][f]]_vars

\* A RESET of a field that held a custom hint, answered with the default,
\* while another field of the schema keeps its custom hint.
C19_Witness ==
    \E p \in Procs :
        /\ pc[p] = "idle" /\ req[p].op = "updateFieldDisplay" /\ result[p] = "ok"
        /\ req[p].name = "w1" /\ req[p].field_name = "age"
        /\ req[p].display_as = RESET
        /\ local[p].current = [f \in {"id", "age"} |-> "json"]
        /\ local[p].ret = [f \in {"id", "age"} |-> IF f = "id" THEN "json" ELSE "number"]
        /\ display["w1"] = local[p].ret

----------------------------------------------------------------------------
(* GET /v1/warehouses: list the registry; and the creation of the           *)
(* registry's own table.                                                    *)

\* Base.metadata.create_all: the registry's table is created if missing.
CreateAll ==
    /\ ~registryTable
    /\ registryTable' = TRUE
    /\ UNCHANGED <<display, registry, tables, items, nextId, pc, req, result, err, local>>

\* Outcomes of the two registry queries of a listing: on a missing table an
\* OperationalError that says "no such table: <registry table>"; else the
\* rows, another OperationalError, or an error of another class.
ListOutcomes(table_exists) ==
    IF table_exists THEN {"ok", "OperationalError", "OtherError"}
    ELSE {"NoSuchTable"}

\* The registry rows in scan order.
RowOrder ==
    <<[name |-> "w1", item_name |-> "i1"], [name |-> "w1", item_name |-> "i2"],
      [name |-> "w2", item_name |-> "i1"], [name |-> "w2", item_name |-> "i2"],
      [name |-> "warehouse", item_name |-> "i1"],
      [name |-> "warehouse", item_name |-> "i2"]>>

InRowOrder(reg) == SelectSeq(RowOrder, LAMBDA r : r \in reg)

\* WarehousePage.empty()
EmptyWarehousePage == [count |-> 0, warehouses |-> <<>>, total |-> 0]

\* is_no_table_error with every OperationalError taken for a missing table.
is_no_table_error_Any(outcome) == TRUE

\* crud.get_warehouses: the message of the OperationalError names the
\* missing registry table.
is_no_table_error(outcome) == outcome = "NoSuchTable"

\* crud.get_warehouses: limit = limit or total
effective_limit(limit, total) ==
    IF limit = <<>> THEN total
    ELSE IF limit[1] = 0 THEN total ELSE limit[1]

\* crud.get_warehouses: query.offset(offset), and query.limit(limit) when a
\* limit is given.
ListedRows(reg, offset, limit) ==
    LET rows == InRowOrder(reg)
        last == IF limit = <<>> THEN Len(rows)
                ELSE IF offset + limit[1] < Len(rows) THEN offset + limit[1]
                ELSE Len(rows)
    IN  SubSeq(rows, offset + 1, last)

StartListWarehouses(p) ==
    /\ pc[p] = "idle"
    /\ \E offset \in 0..MaxOffset, limit \in {<<>>} \cup {<<l>> : l \in 1..MaxLimit},
          allow \in BOOLEAN :
         req' = [req EXCEPT ![p] =
                   [Request("listWarehouses", "w1", "i1", EmptyMap, {})
                      EXCEPT !.offset = offset, !.limit = limit,
                             !.allow_no_warehouse_table = allow]]
    /\ pc' = [pc EXCEPT ![p] = "w_query"]
    /\ result' = [result EXCEPT ![p] = "pending"]
    /\ err' = [err EXCEPT ![p] = "none"]
    /\ local' = [local EXCEPT ![p] = NoLocal]
    /\ UNCHANGED <<display, registryTable, registry, tables, items, nextId>>

\* crud.get_warehouses: the two queries, the handler of OperationalError,
\* and the page arithmetic.
ListWarehouses(p) ==
    /\ pc[p] = "w_query"
    /\ \E o \in ListOutcomes(registryTable) :
         IF o = "ok"
         THEN LET warehouses == ListedRows(registry, req[p].offset, req[p].limit)
                  total == Cardinality(registry)
                  limit == effective_limit(req[p].limit, total)
              IN  IF limit = 0
                  THEN /\ Finish(p, "ServerError", "ZeroDivisionError")
                       /\ local' = local
                  ELSE /\ Finish(p, "ok", "none")
                       /\ local' = [local EXCEPT ![p].ret =
                             [count |-> Len(warehouses), warehouses |-> warehouses,
                              max_page |-> total \div limit,
                              page |-> (req[p].offset \div limit) + 1,
                              total |-> total]]
         ELSE IF o = "OtherError"
         THEN /\ Finish(p, "ServerError", o)
              /\ local' = local
         ELSE IF req[p].allow_no_warehouse_table /\ is_no_table_error(o)
         THEN /\ Finish(p, "ok", "none")
              /\ local' = [local EXCEPT ![p].caught = TRUE, ![p].tolerated = TRUE,
                                         ![p].ret = EmptyWarehousePage]
         ELSE /\ Finish(p, "ServerError", "OperationalError")
              /\ local' = [local EXCEPT ![p].caught = TRUE]
    /\ UNCHANGED <<display, registryTable, registry, tables, items, nextId, req>>

----------------------------------------------------------------------------
(* The registry from a cold start: its table is created, warehouses are     *)
(* registered and removed, the registry is listed; one request at a time.   *)

ListInit ==
    /\ registry = {}
    /\ tables = {}
    /\ items = [t \in ItemNames |-> {}]
    /\ nextId = [t \in ItemNames |-> 1]
    /\ pc = [p \in Procs |-> "idle"]
    /\ req = [p \in Procs |-> NoReq]
    /\ result = [p \in Procs |-> "none"]
    /\ err = [p \in Procs |-> "none"]
    /\ local = [p \in Procs |-> NoLocal]
    /\ display = DefaultDisplays
    /\ registryTable = FALSE

ListNext ==
    \/ CreateAll
    \/ registryTable /\ RegistryStep(Caller)
    \/ StartListWarehouses(Caller)
    \/ ListWarehouses(Caller)

ListSpec == ListInit /\ [][ListNext]_vars

\* C20: a listing of the registry while the registry's table does not exist
\* returns the empty page when the caller opted in, and fails with the
\* storage's error when the caller did not; while the table exists no
\* listing is answered with the tolerated empty page, and every storage
\* failure ends the listing with that failure, opted in or not.
C20_ColdStartTolerated ==
    [][\A p \in Procs :
         (req[p].op = "listWarehouses" /\ pc[p] = "w_query" /\ Steps(p))
         => /\ (~registryTable /\ req[p].allow_no_warehouse_table)
                 => /\ result'[p] = "ok" /\ err'[p] = "none"
                    /\ local'[p].ret = EmptyWarehousePage
            /\ (~registryTable /\ ~req[p].allow_no_warehouse_table)
                 => result'[p] = "ServerError" /\ err'[p] = "OperationalError"
            /\ registryTable
                 => /\ ~local'[p].tolerated
                    /\ local'[p].caught
                         => result'[p] = "ServerError" /\ err'[p] = "OperationalError"
                    /\ result'[p] = "ok"
                         => /\ local'[p].ret.total = Cardinality(registry)
                            /\ Range(local'[p].ret.warehouses) \subseteq registry
            /\ UNCHANGED <<registry, tables, items, registryTable>>]_vars

\* A listing that opted in, ran before the registry's table existed and was
\* answered with the empty page.
C20_Witness ==
    \E p \in Procs :
        /\ pc[p] = "idle" /\ req[p].op = "listWarehouses" /\ result[p] = "ok"
        /\ req[p].allow_no_warehouse_table
        /\ ~registryTable
        /\ local[p].tolerated /\ local[p].ret = EmptyWarehousePage

----------------------------------------------------------------------------
(* Properties of the failures of updateItem and of the registry listing. *)

\* C21: the write of an updateItem whose patch moves the record onto the key
\* tuple of another record ends with ItemExists, whether the storage reports
\* the violation at the statement or at the commit; any other failure of
\* the storage ends the request with that failure.
C21_UniquenessIsItemExists ==
    [][\A p \in Procs :
         (req[p].op = "updateItem" /\ pc[p] = "u_write" /\ Steps(p))
         => /\ MovesOntoStoredKey(items, local[p].item_name,
                                  parse_pk_dict(local[p].item_name, req[p].fields),
                                  req[p].patch)
                 => /\ pc'[p] = "idle"
                    /\ result'[p] = "ItemExists"
                    /\ err'[p] = "ItemExistsError"
            /\ (pc'[p] = "idle" /\ result'[p] # "ItemExists")
                 => result'[p] = "ServerError" /\ err'[p] = "OperationalError"]_vars

\* C22: an updateItem that ends with an error ends on a step that writes
\* nothing, and the record it read at its start (if it found one) is stored
\* as it was read: no error is reported after a change was committed.
C22_ErrorMeansNoChange ==
    [][\A p \in Procs :
         (req[p].op = "updateItem" /\ Ends(p) /\ result'[p] # "ok")
         => /\ items' = items
            /\ local[p].current # EmptyMap
                 => local[p].current \in items'[local[p].item_name]]_vars

\* C23: a listing of the registry without a limit, unless a query of it
\* fails in the storage, returns a page with page 1, total the number of
\* registry rows and count the rows from offset on (none when offset is
\* beyond them), in every state of the registry, the empty one included.
C23_NoLimitOnePage ==
    [][\A p \in Procs :
         ( /\ req[p].op = "listWarehouses" /\ pc[p] = "w_query" /\ Steps(p)
           /\ req[p].limit = <<>> /\ registryTable
           /\ err'[p] \notin {"OperationalError", "OtherError"} )
         => LET total == Cardinality(registry) IN
            /\ result'[p] = "ok"
            /\ local'[p].ret.total = total
            /\ local'[p].ret.page = 1
            /\ local'[p].ret.count
                 = (IF req[p].offset < total THEN total - req[p].offset ELSE 0)]_vars

====
